---- MODULE Spec2Model ----
(***************************************************************************)
(* Document-processing pipeline: the process_document orchestrator of      *)
(* src/src/functions/function_app.py together with the Cosmos DB and Blob  *)
(* Storage gateways it drives.  Each invocation is one delivery of a       *)
(* Service Bus message; invocations share only the external stores.        *)
(***************************************************************************)
EXTENDS Integers, Sequences, FiniteSets, TLC

(* ------------------------------ bounds -------------------------------- *)

\* Number of message deliveries (invocations of process_document).
NumInvocations == 2

\* Number of collaborator calls that fail for a reason outside the
\* pipeline (an outage, a timeout) in one run.
MaxFaults == 1

\* The longest response text of the model call, in pieces.
MaxTextLen == 3

\* The most fields of an extracted_data dict.
MaxFields == 3

\* The longest warnings list of an extracted_data dict.
MaxWarnings == 12

\* The most uploads, and the clock ticks they are spread over.
MaxUploads == 3

MaxTicks == 3

(* ------------------------- program constants -------------------------- *)

\* Config.max_document_size_mb (default of MAX_DOCUMENT_SIZE_MB).
MaxDocumentSizeMb == 50

\* 1024 * 1024, the divisor of the size check.
BytesPerMb == 1048576

\* Confidence is counted in hundredths: 1.0 (line 350).
FullConfidence == 100

\* 0.1 for each warning (line 355), in hundredths.
WarningPenalty == 10

\* 0.05 for each null word (line 360), in hundredths.
NullPenalty == 5

(* ------------------------------ inputs -------------------------------- *)

Invocations == 1..NumInvocations

\* The blobs uploaded to the incoming container (their URLs).
Blobs == {"at-limit.pdf", "over-limit.pdf"}

\* A message body that json.loads rejects.
BadJson == "not json"

\* The bodies a delivered message can carry: the URL of an uploaded blob,
\* or text that is not JSON.
Messages == Blobs \cup {BadJson}

\* Byte length of each uploaded blob: one is exactly at the size limit,
\* the other is one byte over it.
BlobBytes(b) ==
    IF b = "at-limit.pdf" THEN MaxDocumentSizeMb * BytesPerMb
                          ELSE MaxDocumentSizeMb * BytesPerMb + 1

(* ------------------------------ values -------------------------------- *)

\* A field that is absent from a record (Python: key not set / None).
Null == <<>>

\* No exception.
NoError == "none"

\* A local name that has not been assigned yet.
Unbound == "unbound"

\* A key that a dict does not have.
Absent == "absent"

\* The userId of a delivered event: none, or that of a user.
EventUserIds == {Absent, "user-1"}

\* json.loads of a message body that is JSON (line 42): the event, with the
\* locator of its blob and its userId.
Event(url, user) == [url |-> url, userId |-> user]

\* The local name `event_data` before line 42 has run.
UnboundEvent == Event(Unbound, Unbound)

\* dict.get(key, default) for the value the dict holds under the key.
Get(value, default) == IF value = Absent THEN default ELSE value

\* The text of a blob's URL, in pieces: "/" is the character /, every
\* other piece is text without a /.
UrlText(b) ==
    <<"https:", "/", "/", "account.blob.core.windows.net", "/", "incoming",
      "/", b>>

RECURSIVE Split(_, _)
\* str.split(sep): the texts between the separators, in order.
Split(s, sep) ==
    IF \A k \in 1..Len(s) : s[k] # sep THEN <<s>>
    ELSE LET k == CHOOSE n \in 1..Len(s) :
                    /\ s[n] = sep
                    /\ \A m \in 1..(n - 1) : s[m] # sep
         IN  <<SubSeq(s, 1, k - 1)>> \o Split(SubSeq(s, k + 1, Len(s)), sep)

\* Line 95 with [0] for [-1].
FileName_FirstSegment(url) == Split(url, "/")[1]

\* Line 95: blob_url.split('/')[-1].
FileName(url) == Split(url, "/")[Len(Split(url, "/"))]

\* str(uuid.uuid4()) at the three call sites: distinct on every call.
\* Mutant of JobId: every invocation uses the same job id, as a shared
\* counter that is never advanced would give.
JobId_Constant(i) == <<"job", 0>>

JobId(i) == <<"job", i>>

DocumentId(i) == <<"doc", i>>

ExtractedId(i) == <<"ext", i>>

\* The local name `job` before line 55 has run.
UnboundJob ==
    [id |-> Null, documentUrl |-> Unbound, status |-> "unbound",
     documentId |-> Null, error |-> NoError]

\* The dict built at lines 55-61.
NewJob(i, url) ==
    [id |-> JobId(i), documentUrl |-> url, status |-> "processing",
     documentId |-> Null, error |-> NoError]

VARIABLES
    pc,             \* position of each invocation in process_document
    event_data,     \* local event_data of each invocation: the parsed message
    blob_url,       \* local blob_url of each invocation
    job,            \* local job dict of each invocation
    document_bytes, \* len(document_bytes) of each invocation
    e,              \* the exception caught at line 133
    inner_e,        \* the exception caught at line 146
    result,         \* what the invocation propagated to its caller
    trace,          \* per invocation: the collaborator calls made, in order
    jobs,           \* ProcessingJobs container
    documents,      \* Documents container
    extracted,      \* ExtractedData container
    incoming,       \* blobs present in the incoming container
    processed,      \* blobs of the processed container
    failed,         \* blobs of the failed container
    dest_blob_name, \* move_to_failed's destination name, per invocation
    extraction_result, \* local extraction_result of each invocation
    notifications,  \* messages sent to the completion queue
    faults,         \* collaborator calls that have failed from outside
    enable_mock_ai, \* Config.enable_mock_ai
    content_type,   \* extract_data: its content_type argument
    media_type,     \* extract_data: the media type sent to the model
    client_calls,   \* calls of self.client.messages.create
    response_text,  \* extract_data: the text of the model's response
    adapter_result, \* extract_data: what the call returned or raised
    extracted_data, \* _calculate_confidence: its argument
    confidence,     \* _calculate_confidence: what it returned
    utcnow,         \* upload_document: the clock, in ticks
    uploaded,       \* upload_document: the blob name of each upload so far
    incoming_container, \* upload_document: blob name -> the upload it holds
    upload_calls,   \* upload_document: what each call of it raised
    http_request,   \* the upload endpoint: the request handled last
    http_response   \* the upload endpoint: its response to that request

locals ==
    <<pc, event_data, blob_url, job, document_bytes, e, inner_e, result, trace,
      dest_blob_name, extraction_result>>

cosmos == <<jobs, documents, extracted>>

storage == <<incoming, processed, failed>>

\* What process_document works on.
pipeline == <<locals, cosmos, storage, notifications, faults>>

\* What one call of extract_data works on.
adapter ==
    <<enable_mock_ai, content_type, media_type, client_calls, response_text,
      adapter_result>>

\* What one call of _calculate_confidence works on.
scorer == <<extracted_data, confidence>>

\* What the calls of StorageService.upload_document work on.
uploader ==
    <<utcnow, uploaded, incoming_container, upload_calls, http_request,
      http_response>>

\* What the calls made apart from the pipeline work on.
units == <<adapter, scorer, uploader>>

vars ==
    <<pc, event_data, blob_url, job, document_bytes, e, inner_e, result, trace,
      dest_blob_name, extraction_result, jobs, documents, extracted,
      incoming, processed,
      failed, notifications, faults, units>>

(* ------------------------- Cosmos DB gateway -------------------------- *)

\* Partition key of the ProcessingJobs container: /status.
JobsPartitionKey(item) == item.status

\* Items of a container that an item with this id and partition key replaces:
\* Cosmos DB identifies an item by (partition key value, id).
SameItem(container, item) ==
    {r \in container :
        r.id = item.id /\ JobsPartitionKey(r) = JobsPartitionKey(item)}

\* jobs_container.create_item(body=job): rejects an existing item.
CanCreateJob(item) == SameItem(jobs, item) = {}

\* jobs_container.upsert_item(body=job): replaces the item with the same id
\* in the partition the body names, inserts otherwise.
UpsertJob(item) == (jobs \ SameItem(jobs, item)) \cup {item}

(* ------------------------ Blob Storage gateway ------------------------ *)

\* dest_client.start_copy_from_url(source_client.url) is accepted when the
\* source exists and the destination has no copy still in progress.
CanStartCopy(area, name, src) ==
    /\ src \in incoming
    /\ \A d \in area : d.name = name => d.copy # "pending"

\* The destination after an accepted start_copy_from_url: a server-side copy
\* that is still in progress, replacing whatever the name held.
StartCopy(area, name, src) ==
    {d \in area : d.name # name}
        \cup {[name |-> name, source |-> src, copy |-> "pending",
               metadata |-> NoError]}

\* The copies of a container after blob src has been deleted: the ones still
\* in progress lose their source and fail.
AfterSourceDeleted(area, src) ==
    {IF d.source = src /\ d.copy = "pending"
        THEN [d EXCEPT !.copy = "failed"] ELSE d : d \in area}

(* ------------ ClaudeDocumentProcessor.extract_data: parsing ----------- *)

\* A response text is a sequence of pieces, each standing for a run of
\* characters: "obj" the text of a JSON object, "obj_warned" that of a JSON
\* object that lists a warning, "arr" the text of a JSON value that is not
\* an object, "prose" words that are no JSON, "ws" one
\* whitespace character, "fence_json" the characters ```json, and "fence"
\* the characters ```.
Pieces ==
    {"obj", "obj_warned", "arr", "prose", "ws", "fence_json", "fence"}

\* The response texts of at most n pieces.
TextsUpTo(n) == UNION {[1..k -> Pieces] : k \in 0..n}

\* The response texts the model call may return.
ResponseTexts == TextsUpTo(MaxTextLen)

RECURSIVE LStrip(_)
\* str.lstrip(): drop the leading whitespace.
LStrip(s) ==
    IF s # <<>> /\ Head(s) = "ws" THEN LStrip(Tail(s)) ELSE s

RECURSIVE RStrip(_)
\* str.rstrip(): drop the trailing whitespace.
RStrip(s) ==
    IF s # <<>> /\ s[Len(s)] = "ws"
    THEN RStrip(SubSeq(s, 1, Len(s) - 1))
    ELSE s

\* str.strip() of line 206.
Strip(s) == RStrip(LStrip(s))

\* json.loads(s): whitespace around the value is skipped; the text must be
\* exactly one JSON value.  An object loads as a dict, any other value as
\* something that is no dict; everything else raises JSONDecodeError.
JsonLoads(s) ==
    LET t == Strip(s) IN
    IF Len(t) = 1 /\ t[1] \in {"obj", "obj_warned"} THEN "dict"
    ELSE IF Len(t) = 1 /\ t[1] = "arr" THEN "list"
    ELSE "JSONDecodeError"

\* "```json" in response_text (line 203).
HasJsonFence(s) == \E k \in 1..Len(s) : s[k] = "fence_json"

\* str.find: the first position from `start` on that holds one of the
\* pieces, or 0 where Python returns -1.
Find(s, pieces, start) ==
    IF \E k \in start..Len(s) : s[k] \in pieces
    THEN CHOOSE k \in start..Len(s) :
            /\ s[k] \in pieces
            /\ \A l \in start..(k - 1) : s[l] \notin pieces
    ELSE 0

\* s[:-1]: the text without its last character.  A piece that loses its
\* last character is cut: no whitespace, no JSON, no fence.
DropLastChar(s) ==
    IF s = <<>> THEN s
    ELSE IF s[Len(s)] = "ws" THEN SubSeq(s, 1, Len(s) - 1)
    ELSE SubSeq(s, 1, Len(s) - 1) \o <<"cut">>

\* Lines 204-206: response_text[json_start:json_end].strip(), json_start
\* just behind the first ```json and json_end the next ``` (which the
\* characters ```json begin with, too).  With no closing fence find gives
\* -1 and the slice runs to the character before the last.
FencedBlock(s) ==
    LET json_start == Find(s, {"fence_json"}, 1) + 1
        json_end == Find(s, {"fence", "fence_json"}, json_start)
    IN  Strip(IF json_end # 0
              THEN SubSeq(s, json_start, json_end - 1)
              ELSE DropLastChar(SubSeq(s, json_start, Len(s))))

(* ------- ClaudeDocumentProcessor._calculate_confidence, the result ----- *)

\* What a field of extracted_data can hold: JSON null (None once loaded), a
\* number, a string, and a string in which the word null stands alone
\* between spaces.
FieldValues == {"json_null", "number", "text", "null_word"}

\* An extracted_data dict loaded from JSON: the values of its fields and the
\* length of its "warnings" list.
Dict(values, warnings) ==
    [kind |-> "parsed", raw_text |-> Null, values |-> values,
     warnings |-> warnings]

\* extracted_data as loaded from the text the piece "obj" stands for, an
\* object of one numeric field and no warnings.
Parsed == Dict(<<"number">>, 0)

\* extracted_data as loaded from the text the piece "obj_warned" stands
\* for, an object of one text field that holds the word null, with one
\* warning.
Warned == Dict(<<"null_word">>, 1)

\* extracted_data as json.loads gave it for a text that is a JSON object.
LoadedDict(s) == IF Strip(s) = <<"obj_warned">> THEN Warned ELSE Parsed

\* extracted_data = {"raw_text": response_text} (line 211).
RawText(s) ==
    [kind |-> "raw_text", raw_text |-> s, values |-> <<>>, warnings |-> 0]

\* No extracted_data.
NoDict ==
    [kind |-> "none", raw_text |-> Null, values |-> <<>>, warnings |-> 0]

\* The words str() prints for a value: None for JSON null, and the words of
\* a string, the first and the last with the quote stuck to them.
ValueWords(v) ==
    CASE v = "json_null" -> <<"None,">>
      [] v = "number" -> <<"1,">>
      [] v = "text" -> <<"'text',">>
      [] v = "null_word" -> <<"'is", "null", "here',">>

RECURSIVE FieldWords(_)
\* The words str() prints for the fields: each key, then its value.
FieldWords(values) ==
    IF values = <<>> THEN <<>>
    ELSE <<"'field':">> \o ValueWords(Head(values))
            \o FieldWords(Tail(values))

\* str(extracted_data).split() of line 359.  No piece of a response text is
\* the word null standing alone.
StrSplit(d) ==
    IF d.kind = "raw_text"
    THEN <<"{'raw_text':">> \o SelectSeq(d.raw_text, LAMBDA x : x # "ws")
    ELSE FieldWords(d.values) \o <<"'warnings':">>
            \o [k \in 1..d.warnings |-> "'warning',"]

\* null_count of line 359: the words that are exactly null.
NullCount(d) ==
    Cardinality({k \in 1..Len(StrSplit(d)) : StrSplit(d)[k] = "null"})

\* Line 363 without its clamp.
Clamp_None(c) == c

\* max(0.0, min(1.0, confidence)) of line 363, in hundredths.
Clamp(c) ==
    IF c < 0 THEN 0
    ELSE IF c > FullConfidence THEN FullConfidence
    ELSE c

\* _calculate_confidence (lines 350-363), in hundredths: the products and
\* differences of the floats stay within 1e-12 of these.
CalculateConfidence(d) ==
    Clamp(FullConfidence - d.warnings * WarningPenalty
            - NullCount(d) * NullPenalty)

\* _calculate_confidence has not returned.
NotComputed == [computed |-> FALSE, value |-> 0]

\* _calculate_confidence returned value.
Computed(value) == [computed |-> TRUE, value |-> value]

\* extract_data returns its dict (lines 219-230).
Returned(fields, raw) ==
    [raised |-> NoError, extractedFields |-> fields,
     confidence |-> CalculateConfidence(fields), model |-> "claude_model",
     rawResponse |-> raw, warnings |-> fields.warnings]

\* extract_data gave no dict.
NoResult(why) ==
    [raised |-> why, extractedFields |-> NoDict, confidence |-> 0,
     model |-> "none", rawResponse |-> Null, warnings |-> 0]

\* extract_data has not been called.
NotCalled == NoResult("not called")

\* extract_data raises: line 237 re-raises whatever lines 142-230 raised.
RaisedBy(exception) == NoResult(exception)

\* The dict _mock_extraction returns (lines 396-438): a fixed invoice with
\* an empty warnings list, confidence 1.0 and model "mock-ai".
MockExtraction ==
    [raised |-> NoError, extractedFields |-> Dict(<<"text", "number">>, 0),
     confidence |-> FullConfidence, model |-> "mock-ai",
     rawResponse |-> <<"Mock response">>, warnings |-> 0]

(* ------------ ClaudeDocumentProcessor._get_claude_media_type ---------- *)

\* A content type is its text in lower case and the case it is written in.
MimeTypes ==
    {"application/pdf", "image/png", "image/jpeg", "image/jpg", "image/gif",
     "image/webp", "application/octet-stream", "text/plain"}

Casings == {"lower", "upper", "mixed"}

ContentTypes == MimeTypes \X Casings

\* No content type.
NoContentType == <<"none", "lower">>

\* The lookup without lower().
Lower_Identity(s) == s

\* str.lower().
Lower(s) == <<s[1], "lower">>

\* A string literal of the source, written in lower case.
Literal(text) == <<text, "lower">>

\* The keys of mime_to_claude (lines 251-258).
MimeKeys ==
    {Literal("application/pdf"), Literal("image/png"), Literal("image/jpeg"),
     Literal("image/jpg"), Literal("image/gif"), Literal("image/webp")}

\* mime_to_claude[key] (lines 251-258).
MimeToClaude(key) ==
    IF key = Literal("image/jpg") THEN Literal("image/jpeg") ELSE key

\* Line 259: mime_to_claude.get(content_type.lower(), "application/pdf").
GetClaudeMediaType(ct) ==
    IF Lower(ct) \in MimeKeys THEN MimeToClaude(Lower(ct))
    ELSE Literal("application/pdf")

(* --------------- ClaudeDocumentProcessor.extract_data ----------------- *)

\* Lines 213-230 for the value json.loads gave: _calculate_confidence and
\* line 224 call extracted_data.get, which only a dict has.
Structured(loaded, raw) ==
    IF loaded = "dict" THEN Returned(LoadedDict(raw), raw)
    ELSE RaisedBy("AttributeError")

\* Lines 192-230 of extract_data for the response text s.  The json.loads
\* of line 207 runs inside the except clause of line 200, so its
\* JSONDecodeError is not caught there.
ParseResponse(s) ==
    IF JsonLoads(s) # "JSONDecodeError"
    THEN Structured(JsonLoads(s), s)
    ELSE IF HasJsonFence(s)
    THEN IF JsonLoads(FencedBlock(s)) # "JSONDecodeError"
         THEN Structured(JsonLoads(FencedBlock(s)), FencedBlock(s))
         ELSE RaisedBy("JSONDecodeError")
    ELSE Returned(RawText(s), s)

(* ------------------------- environment, Init -------------------------- *)

\* The outcomes the environment can give a collaborator call: it may fail
\* from outside while the run's budget of such failures lasts.
Outcomes == IF faults < MaxFaults THEN BOOLEAN ELSE {TRUE}

\* Account for the outcome the environment gave.
Outcome(ok) == faults' = IF ok THEN faults ELSE faults + 1

\* Append one collaborator call and its outcome to an invocation's trace.
Logged(i, step, ok) == [trace EXCEPT ![i] = Append(@, <<step, ok>>)]

\* No message has been delivered; the stores are empty and the uploaded
\* blobs are in the incoming container.
PipelineInit ==
    /\ pc = [i \in Invocations |-> "idle"]
    /\ event_data = [i \in Invocations |-> UnboundEvent]
    /\ blob_url = [i \in Invocations |-> Unbound]
    /\ job = [i \in Invocations |-> UnboundJob]
    /\ document_bytes = [i \in Invocations |-> 0]
    /\ e = [i \in Invocations |-> NoError]
    /\ inner_e = [i \in Invocations |-> NoError]
    /\ result = [i \in Invocations |-> NoError]
    /\ trace = [i \in Invocations |-> <<>>]
    /\ dest_blob_name = [i \in Invocations |-> Null]
    /\ extraction_result = [i \in Invocations |-> NotCalled]
    /\ jobs = {}
    /\ documents = {}
    /\ extracted = {}
    /\ incoming = Blobs
    /\ processed = {}
    /\ failed = {}
    /\ notifications = {}
    /\ faults = 0

\* No call of extract_data is under way; the mock flag has its default.
AdapterIdle ==
    /\ enable_mock_ai = FALSE
    /\ content_type = NoContentType
    /\ media_type = NoContentType
    /\ client_calls = 0
    /\ response_text = <<>>
    /\ adapter_result = NotCalled

\* No call of _calculate_confidence is under way.
ScorerIdle ==
    /\ extracted_data = NoDict
    /\ confidence = NotComputed

\* A request, by its first file and the byte length of that file.
Request(file, size) == [file |-> file, size |-> size]

\* No request has been handled.
NoRequest == Request("none", 0)

\* func.HttpResponse(json.dumps({...}), status_code=...).
HttpResponse(status_code, error, blobUrl) ==
    [status_code |-> status_code, error |-> error, blobUrl |-> blobUrl]

\* No response has been given.
NoResponse == HttpResponse(0, NoError, Null)

\* Nothing has been uploaded.
UploaderIdle ==
    /\ utcnow = 0
    /\ uploaded = <<>>
    /\ incoming_container = {}
    /\ upload_calls = <<>>
    /\ http_request = NoRequest
    /\ http_response = NoResponse

Init ==
    /\ PipelineInit
    /\ AdapterIdle
    /\ ScorerIdle
    /\ UploaderIdle

(* --------------------- process_document: helpers ---------------------- *)

\* The size check with >= for >.
TooLarge_Inclusive(n) == n >= MaxDocumentSizeMb * BytesPerMb

\* size_mb > float(config.max_document_size_mb), with size_mb the byte
\* length divided by 1024 * 1024: the division by a power of two is exact,
\* so the comparison is the one on bytes.
TooLarge(n) == n > MaxDocumentSizeMb * BytesPerMb

\* A step of the try block raises: control passes to `except Exception as e`.
Throw(i, step) ==
    /\ e' = [e EXCEPT ![i] = step]
    /\ pc' = [pc EXCEPT ![i] = "handler"]
    /\ trace' = Logged(i, step, FALSE)

\* A step returns normally and control moves on.
Goto(i, step, next) ==
    /\ pc' = [pc EXCEPT ![i] = next]
    /\ trace' = Logged(i, step, TRUE)

\* A step inside a collaborator that swallows its exceptions fails: the
\* collaborator logs, returns, and control moves on.
Swallow(i, step, next) ==
    /\ pc' = [pc EXCEPT ![i] = next]
    /\ trace' = Logged(i, step, FALSE)

\* Mutant of Reraise: the exception raised last wins, as it would if the
\* handler ended with `raise inner_e` or ran under Python 2 semantics.
Reraise_LastActive(orig, inner) == IF inner # NoError THEN inner ELSE orig

\* The bare `raise` of line 150: Python re-raises the exception the
\* enclosing except clause is handling, whatever the nested try caught.
Reraise(orig, inner) == orig

\* The handler ends: the invocation terminates by raising.
EndHandler(i, inner) ==
    /\ inner_e' = [inner_e EXCEPT ![i] = inner]
    /\ pc' = [pc EXCEPT ![i] = "raised"]
    /\ result' = [result EXCEPT ![i] = Reraise(e[i], inner)]

(* ------------------- process_document: the try block ------------------ *)

\* Lines 38-61: a message is delivered; parse it, resolve blob_url, build
\* the job dict.  Invocations are numbered in the order of delivery.
ParseMessage(i) ==
    /\ pc[i] = "idle"
    /\ \A j \in Invocations : j < i => pc[j] # "idle"
    /\ \E m \in Messages, user \in EventUserIds :
        IF m = BadJson
        THEN /\ Throw(i, "json_loads")
             /\ UNCHANGED <<event_data, blob_url, job>>
        ELSE /\ event_data' = [event_data EXCEPT ![i] = Event(m, user)]
             /\ blob_url' = [blob_url EXCEPT ![i] = m]
             /\ job' = [job EXCEPT ![i] = NewJob(i, m)]
             /\ Goto(i, "json_loads", "create_job")
             /\ UNCHANGED e
    /\ UNCHANGED <<extraction_result, units>>
    /\ UNCHANGED <<document_bytes, inner_e, result, dest_blob_name,
                   cosmos, storage, notifications, faults>>

\* Line 62: await cosmos_service.create_job(job).
CreateJob(i) ==
    /\ pc[i] = "create_job"
    /\ \E ok \in Outcomes :
        /\ Outcome(ok)
        /\ IF ok /\ CanCreateJob(job[i])
           THEN /\ jobs' = jobs \cup {job[i]}
                /\ Goto(i, "create_job", "download_document")
                /\ UNCHANGED e
           ELSE /\ Throw(i, "create_job")
                /\ UNCHANGED jobs
    /\ UNCHANGED <<event_data, extraction_result, units>>
    /\ UNCHANGED <<blob_url, job, document_bytes, inner_e, result,
                   dest_blob_name, documents, extracted, storage,
                   notifications>>

\* Line 66: await storage_service.download_document(blob_url).
DownloadDocument(i) ==
    /\ pc[i] = "download_document"
    /\ \E ok \in Outcomes :
        /\ Outcome(ok)
        /\ IF ok /\ blob_url[i] \in incoming
           THEN /\ document_bytes' =
                    [document_bytes EXCEPT ![i] = BlobBytes(blob_url[i])]
                /\ Goto(i, "download_document", "check_size")
                /\ UNCHANGED e
           ELSE /\ Throw(i, "download_document")
                /\ UNCHANGED document_bytes
    /\ UNCHANGED <<event_data, extraction_result, units>>
    /\ UNCHANGED <<blob_url, job, inner_e, result, dest_blob_name, cosmos,
                   storage, notifications>>

\* Mutant of CheckSize: the check never raises.
CheckSize_Skipped(i) ==
    /\ pc[i] = "check_size"
    /\ Goto(i, "check_size", "extract_data")
    /\ UNCHANGED <<event_data, extraction_result, units>>
    /\ UNCHANGED <<blob_url, job, document_bytes, e, inner_e, result,
                   dest_blob_name, cosmos, storage, notifications, faults>>

\* Lines 68-71: the size check.
CheckSize(i) ==
    /\ pc[i] = "check_size"
    /\ IF TooLarge(document_bytes[i])
       THEN Throw(i, "check_size")
       ELSE Goto(i, "check_size", "extract_data") /\ UNCHANGED e
    /\ UNCHANGED <<event_data, extraction_result, units>>
    /\ UNCHANGED <<blob_url, job, document_bytes, inner_e, result,
                   dest_blob_name, cosmos, storage, notifications, faults>>

\* The responses of the model call the pipeline is run with: a JSON
\* object, one that lists a warning, prose, and a ```json block whose
\* contents are no JSON.
PipelineResponses ==
    {<<"obj">>, <<"obj_warned">>, <<"prose">>,
     <<"fence_json", "prose", "fence">>}

\* Lines 77-81: await claude_processor.extract_data(...), with the live
\* model client.  The call raises when the client fails and when the
\* parsing of the response raises.
ExtractData(i) ==
    /\ pc[i] = "extract_data"
    /\ \E ok \in Outcomes, text \in PipelineResponses :
        /\ Outcome(ok)
        /\ IF ok /\ ParseResponse(text).raised = NoError
           THEN /\ extraction_result' =
                    [extraction_result EXCEPT ![i] = ParseResponse(text)]
                /\ Goto(i, "extract_data", "create_document")
                /\ UNCHANGED e
           ELSE /\ Throw(i, "extract_data")
                /\ UNCHANGED extraction_result
    /\ UNCHANGED <<event_data, units>>
    /\ UNCHANGED <<blob_url, job, document_bytes, inner_e, result,
                   dest_blob_name, cosmos, storage, notifications>>

\* The dict built at lines 86-96.
DocumentRecord(i) ==
    [id |-> DocumentId(i), blobUrl |-> blob_url[i], status |-> "completed",
     sizeBytes |-> document_bytes[i], jobId |-> job[i].id,
     userId |-> Get(event_data[i].userId, "anonymous"),
     fileName |-> FileName(UrlText(blob_url[i]))]

\* Line 97: await cosmos_service.create_document(document_record).
CreateDocument(i) ==
    /\ pc[i] = "create_document"
    /\ \E ok \in Outcomes :
        /\ Outcome(ok)
        /\ IF ok
           THEN /\ documents' = documents \cup {DocumentRecord(i)}
                /\ Goto(i, "create_document", "create_extracted_data")
                /\ UNCHANGED e
           ELSE /\ Throw(i, "create_document")
                /\ UNCHANGED documents
    /\ UNCHANGED <<event_data, extraction_result, units>>
    /\ UNCHANGED <<blob_url, job, document_bytes, inner_e, result,
                   dest_blob_name, jobs, extracted, storage, notifications>>

\* The dict of lines 100-109 with the default of every .get.
ExtractedRecord_Defaults(i) ==
    [id |-> ExtractedId(i), documentId |-> DocumentId(i),
     extractedFields |-> NoDict, confidence |-> 0, model |-> "",
     warnings |-> 0, rawResponse |-> <<>>]

\* The dict built at lines 100-109.
ExtractedRecord(i) ==
    [id |-> ExtractedId(i), documentId |-> DocumentId(i),
     extractedFields |-> extraction_result[i].extractedFields,
     confidence |-> extraction_result[i].confidence,
     model |-> extraction_result[i].model,
     warnings |-> extraction_result[i].warnings,
     rawResponse |-> extraction_result[i].rawResponse]

\* Mutant of CreateExtractedData: a failed insert is logged and swallowed.
CreateExtractedData_Swallowed(i) ==
    /\ pc[i] = "create_extracted_data"
    /\ \E ok \in Outcomes :
        /\ Outcome(ok)
        /\ IF ok
           THEN /\ extracted' = extracted \cup {ExtractedRecord(i)}
                /\ Goto(i, "create_extracted_data", "move_to_processed")
           ELSE /\ Swallow(i, "create_extracted_data", "move_to_processed")
                /\ UNCHANGED extracted
    /\ UNCHANGED <<event_data, extraction_result, units>>
    /\ UNCHANGED <<blob_url, job, document_bytes, e, inner_e, result,
                   dest_blob_name, jobs, documents, storage, notifications>>

\* Line 110: await cosmos_service.create_extracted_data(extracted_record).
CreateExtractedData(i) ==
    /\ pc[i] = "create_extracted_data"
    /\ \E ok \in Outcomes :
        /\ Outcome(ok)
        /\ IF ok
           THEN /\ extracted' = extracted \cup {ExtractedRecord(i)}
                /\ Goto(i, "create_extracted_data", "move_to_processed")
                /\ UNCHANGED e
           ELSE /\ Throw(i, "create_extracted_data")
                /\ UNCHANGED extracted
    /\ UNCHANGED <<event_data, extraction_result, units>>
    /\ UNCHANGED <<blob_url, job, document_bytes, inner_e, result,
                   dest_blob_name, jobs, documents, storage, notifications>>

(* ---------------- StorageService.move_to_processed -------------------- *)

\* dest_blob_name = f"{document_id}/{blob_name}" (line 282).
ProcessedName(i) == <<DocumentId(i), blob_url[i]>>

\* Mutant of ProcessedCopy: lines 308-313 re-raise, so a failed copy reaches
\* the handler of process_document.
ProcessedCopy_Propagates(i) ==
    /\ pc[i] = "move_to_processed"
    /\ \E ok \in Outcomes :
        /\ Outcome(ok)
        /\ IF ok /\ CanStartCopy(processed, ProcessedName(i), blob_url[i])
           THEN /\ processed' =
                    StartCopy(processed, ProcessedName(i), blob_url[i])
                /\ Goto(i, "processed_copy", "processed_delete")
                /\ UNCHANGED e
           ELSE /\ Throw(i, "processed_copy")
                /\ UNCHANGED processed
    /\ UNCHANGED <<event_data, extraction_result, units>>
    /\ UNCHANGED <<blob_url, job, document_bytes, inner_e, result,
                   dest_blob_name, cosmos, incoming, failed, notifications>>

\* Mutant of ProcessedCopy: the delete of the source does not depend on the
\* copy having been started.
ProcessedCopy_DeleteAnyway(i) ==
    /\ pc[i] = "move_to_processed"
    /\ \E ok \in Outcomes :
        /\ Outcome(ok)
        /\ IF ok /\ CanStartCopy(processed, ProcessedName(i), blob_url[i])
           THEN /\ processed' =
                    StartCopy(processed, ProcessedName(i), blob_url[i])
                /\ Goto(i, "processed_copy", "processed_delete")
           ELSE /\ Swallow(i, "processed_copy", "processed_delete")
                /\ UNCHANGED processed
    /\ UNCHANGED <<event_data, extraction_result, units>>
    /\ UNCHANGED <<blob_url, job, document_bytes, e, inner_e, result,
                   dest_blob_name, cosmos, incoming, failed, notifications>>

\* Line 113 calls move_to_processed; lines 272-293 start the server-side
\* copy.  Any exception is logged and swallowed (lines 308-313).
ProcessedCopy(i) ==
    /\ pc[i] = "move_to_processed"
    /\ \E ok \in Outcomes :
        /\ Outcome(ok)
        /\ IF ok /\ CanStartCopy(processed, ProcessedName(i), blob_url[i])
           THEN /\ processed' =
                    StartCopy(processed, ProcessedName(i), blob_url[i])
                /\ Goto(i, "processed_copy", "processed_delete")
           ELSE /\ Swallow(i, "processed_copy", "update_job_completed")
                /\ UNCHANGED processed
    /\ UNCHANGED <<event_data, extraction_result, units>>
    /\ UNCHANGED <<blob_url, job, document_bytes, e, inner_e, result,
                   dest_blob_name, cosmos, incoming, failed, notifications>>

\* Mutant of ProcessedDelete: a failed delete is not swallowed and reaches
\* the handler of process_document.
ProcessedDelete_Propagates(i) ==
    /\ pc[i] = "processed_delete"
    /\ \E ok \in Outcomes :
        /\ Outcome(ok)
        /\ IF ok /\ blob_url[i] \in incoming
           THEN /\ incoming' = incoming \ {blob_url[i]}
                /\ processed' = AfterSourceDeleted(processed, blob_url[i])
                /\ failed' = AfterSourceDeleted(failed, blob_url[i])
                /\ Goto(i, "processed_delete", "update_job_completed")
                /\ UNCHANGED e
           ELSE /\ Throw(i, "processed_delete")
                /\ UNCHANGED storage
    /\ UNCHANGED <<event_data, extraction_result, units>>
    /\ UNCHANGED <<blob_url, job, document_bytes, inner_e, result,
                   dest_blob_name, cosmos, notifications>>

\* Lines 299-304: after the fixed sleep, source_client.delete_blob().  The
\* copies of this blob that are still in progress lose their source.
ProcessedDelete(i) ==
    /\ pc[i] = "processed_delete"
    /\ \E ok \in Outcomes :
        /\ Outcome(ok)
        /\ IF ok /\ blob_url[i] \in incoming
           THEN /\ incoming' = incoming \ {blob_url[i]}
                /\ processed' = AfterSourceDeleted(processed, blob_url[i])
                /\ failed' = AfterSourceDeleted(failed, blob_url[i])
                /\ Goto(i, "processed_delete", "update_job_completed")
           ELSE /\ Swallow(i, "processed_delete", "update_job_completed")
                /\ UNCHANGED storage
    /\ UNCHANGED <<event_data, extraction_result, units>>
    /\ UNCHANGED <<blob_url, job, document_bytes, e, inner_e, result,
                   dest_blob_name, cosmos, notifications>>

(* --------------- process_document: completing the job ----------------- *)

\* Mutant of CompletedJob: line 118 is missing.
CompletedJob_NoDocumentId(i) == [job[i] EXCEPT !.status = "completed"]

\* Lines 116-118: the job dict as written by the success path.
CompletedJob(i) ==
    [job[i] EXCEPT !.status = "completed", !.documentId = DocumentId(i)]

\* Mutant of UpdateJobCompleted: a failed update is logged and swallowed.
UpdateJobCompleted_Swallowed(i) ==
    /\ pc[i] = "update_job_completed"
    /\ job' = [job EXCEPT ![i] = CompletedJob(i)]
    /\ \E ok \in Outcomes :
        /\ Outcome(ok)
        /\ IF ok
           THEN /\ jobs' = UpsertJob(CompletedJob(i))
                /\ Goto(i, "update_job_completed",
                        "send_completion_notification")
           ELSE /\ Swallow(i, "update_job_completed",
                           "send_completion_notification")
                /\ UNCHANGED jobs
    /\ UNCHANGED <<event_data, extraction_result, units>>
    /\ UNCHANGED <<blob_url, document_bytes, e, inner_e, result,
                   dest_blob_name, documents, extracted, storage,
                   notifications>>

\* Lines 116-119: await cosmos_service.update_job(job), status completed.
UpdateJobCompleted(i) ==
    /\ pc[i] = "update_job_completed"
    /\ job' = [job EXCEPT ![i] = CompletedJob(i)]
    /\ \E ok \in Outcomes :
        /\ Outcome(ok)
        /\ IF ok
           THEN /\ jobs' = UpsertJob(CompletedJob(i))
                /\ Goto(i, "update_job_completed",
                        "send_completion_notification")
                /\ UNCHANGED e
           ELSE /\ Throw(i, "update_job_completed")
                /\ UNCHANGED jobs
    /\ UNCHANGED <<event_data, extraction_result, units>>
    /\ UNCHANGED <<blob_url, document_bytes, inner_e, result,
                   dest_blob_name, documents, extracted, storage,
                   notifications>>

\* The dict built at lines 122-128.
CompletionMessage(i) ==
    [documentId |-> DocumentId(i), jobId |-> JobId(i),
     status |-> "completed"]

\* Mutant of SendCompletionNotification: a failed send propagates to the
\* handler of process_document.
SendCompletionNotification_Propagates(i) ==
    /\ pc[i] = "send_completion_notification"
    /\ \E ok \in Outcomes :
        /\ Outcome(ok)
        /\ IF ok
           THEN /\ notifications' = notifications \cup {CompletionMessage(i)}
                /\ Goto(i, "send_completion_notification", "returned")
                /\ UNCHANGED e
           ELSE /\ Throw(i, "send_completion_notification")
                /\ UNCHANGED notifications
    /\ UNCHANGED <<event_data, extraction_result, units>>
    /\ UNCHANGED <<blob_url, job, document_bytes, inner_e, result,
                   dest_blob_name, cosmos, storage>>

\* Lines 129-131: send_completion_notification swallows every exception
\* (storage_service.py lines 456-462); the function then returns.
SendCompletionNotification(i) ==
    /\ pc[i] = "send_completion_notification"
    /\ \E ok \in Outcomes :
        /\ Outcome(ok)
        /\ IF ok
           THEN /\ notifications' = notifications \cup {CompletionMessage(i)}
                /\ Goto(i, "send_completion_notification", "returned")
           ELSE /\ Swallow(i, "send_completion_notification", "returned")
                /\ UNCHANGED notifications
    /\ UNCHANGED <<event_data, extraction_result, units>>
    /\ UNCHANGED <<blob_url, job, document_bytes, e, inner_e, result,
                   dest_blob_name, cosmos, storage>>

(* ------------------ process_document: the handler --------------------- *)

\* Lines 138-140: the job dict as written by the failure path.
FailedJob(i) == [job[i] EXCEPT !.status = "failed", !.error = e[i]]

\* Mutant of UpdateJobFailed: the update has a try of its own, so the move
\* to the failed container is attempted whether or not the update succeeded.
UpdateJobFailed_MoveAnyway(i) ==
    /\ pc[i] = "handler"
    /\ IF job[i].status = "unbound"
       THEN /\ EndHandler(i, "UnboundLocalError")
            /\ UNCHANGED <<job, jobs, trace, faults>>
       ELSE /\ job' = [job EXCEPT ![i] = FailedJob(i)]
            /\ \E ok \in Outcomes :
                /\ Outcome(ok)
                /\ IF ok
                   THEN /\ jobs' = UpsertJob(FailedJob(i))
                        /\ Goto(i, "update_job_failed", "move_to_failed")
                   ELSE /\ Swallow(i, "update_job_failed", "move_to_failed")
                        /\ UNCHANGED jobs
            /\ UNCHANGED <<inner_e, result>>
    /\ UNCHANGED <<event_data, extraction_result, units>>
    /\ UNCHANGED <<blob_url, document_bytes, e, dest_blob_name, documents,
                   extracted, storage, notifications>>

\* Lines 137-141 and 146-150: mark the job failed.  With `job` unbound the
\* assignment of line 138 raises; a failing update_job raises too.  Both
\* land in the inner except clause, which skips the move and re-raises e.
\* Where update_job is reached `job` is bound, and so is blob_url (line 46
\* precedes line 55): the test of line 144 is true.
UpdateJobFailed(i) ==
    /\ pc[i] = "handler"
    /\ IF job[i].status = "unbound"
       THEN /\ EndHandler(i, "UnboundLocalError")
            /\ UNCHANGED <<job, jobs, trace, faults>>
       ELSE /\ job' = [job EXCEPT ![i] = FailedJob(i)]
            /\ \E ok \in Outcomes :
                /\ Outcome(ok)
                /\ IF ok
                   THEN /\ jobs' = UpsertJob(FailedJob(i))
                        /\ Goto(i, "update_job_failed", "move_to_failed")
                        /\ UNCHANGED <<inner_e, result>>
                   ELSE /\ EndHandler(i, "update_job_failed")
                        /\ trace' = Logged(i, "update_job_failed", FALSE)
                        /\ UNCHANGED jobs
    /\ UNCHANGED <<event_data, extraction_result, units>>
    /\ UNCHANGED <<blob_url, document_bytes, e, dest_blob_name, documents,
                   extracted, storage, notifications>>

(* ------------------ StorageService.move_to_failed --------------------- *)

\* dest_blob_name = f"{timestamp}_failed/{blob_name}" (line 355).
FailedName(ts, b) == <<<<"failed", ts>>, b>>

\* timestamp = datetime.utcnow().strftime("%Y%m%d%H%M%S") (line 354): the
\* second in which the move runs, named after the first invocation that
\* runs a move in it.  The destination is a new name, or the name an
\* earlier move of the same blob made in the same second.
FailedNames(i) ==
    {FailedName(i, blob_url[i])}
        \cup {d.name : d \in {x \in failed : x.source = blob_url[i]}}

\* Line 145 calls move_to_failed; lines 343-362 start the server-side copy.
\* Any exception is logged and swallowed (lines 381-383), then line 150.
FailedCopy(i) ==
    /\ pc[i] = "move_to_failed"
    /\ \E ok \in Outcomes, name \in FailedNames(i) :
        /\ Outcome(ok)
        /\ IF ok /\ CanStartCopy(failed, name, blob_url[i])
           THEN /\ failed' = StartCopy(failed, name, blob_url[i])
                /\ dest_blob_name' = [dest_blob_name EXCEPT ![i] = name]
                /\ Goto(i, "failed_copy", "failed_set_metadata")
                /\ UNCHANGED <<inner_e, result>>
           ELSE /\ EndHandler(i, NoError)
                /\ trace' = Logged(i, "failed_copy", FALSE)
                /\ UNCHANGED <<failed, dest_blob_name>>
    /\ UNCHANGED <<event_data, extraction_result, units>>
    /\ UNCHANGED <<blob_url, job, document_bytes, e, cosmos, incoming,
                   processed, notifications>>

\* set_blob_metadata is accepted on a destination whose copy is no longer
\* in progress.
CanSetMetadata(area, name) ==
    \E d \in area : d.name = name /\ d.copy # "pending"

\* The container after set_blob_metadata({"error": error_message[:256], ...}).
SetMetadata(area, name, message) ==
    {IF d.name = name THEN [d EXCEPT !.metadata = message] ELSE d :
        d \in area}

\* Lines 369-372: dest_client.set_blob_metadata(...).
FailedSetMetadata(i) ==
    /\ pc[i] = "failed_set_metadata"
    /\ \E ok \in Outcomes :
        /\ Outcome(ok)
        /\ IF ok /\ CanSetMetadata(failed, dest_blob_name[i])
           THEN /\ failed' = SetMetadata(failed, dest_blob_name[i], e[i])
                /\ Goto(i, "failed_set_metadata", "failed_delete")
                /\ UNCHANGED <<inner_e, result>>
           ELSE /\ EndHandler(i, NoError)
                /\ trace' = Logged(i, "failed_set_metadata", FALSE)
                /\ UNCHANGED failed
    /\ UNCHANGED <<event_data, extraction_result, units>>
    /\ UNCHANGED <<blob_url, job, document_bytes, e, dest_blob_name, cosmos,
                   incoming, processed, notifications>>

\* Lines 376-377: after the fixed sleep, source_client.delete_blob(); then
\* line 150 re-raises.
FailedDelete(i) ==
    /\ pc[i] = "failed_delete"
    /\ \E ok \in Outcomes :
        /\ Outcome(ok)
        /\ IF ok /\ blob_url[i] \in incoming
           THEN /\ incoming' = incoming \ {blob_url[i]}
                /\ processed' = AfterSourceDeleted(processed, blob_url[i])
                /\ failed' = AfterSourceDeleted(failed, blob_url[i])
                /\ trace' = Logged(i, "failed_delete", TRUE)
           ELSE /\ trace' = Logged(i, "failed_delete", FALSE)
                /\ UNCHANGED storage
    /\ EndHandler(i, NoError)
    /\ UNCHANGED <<event_data, extraction_result, units>>
    /\ UNCHANGED <<blob_url, job, document_bytes, e, dest_blob_name, cosmos,
                   notifications>>

(* ----------------------- the storage service -------------------------- *)

\* The container once the server-side copy to d has finished.
Completed(area, d) == (area \ {d}) \cup {[d EXCEPT !.copy = "success"]}

\* A copy in progress can finish while its source still exists.
CanComplete(d) == d.copy = "pending" /\ d.source \in incoming

\* A server-side copy into the processed container finishes.
ProcessedCopyCompletes(d) ==
    /\ CanComplete(d)
    /\ processed' = Completed(processed, d)
    /\ UNCHANGED units
    /\ UNCHANGED <<locals, cosmos, incoming, failed, notifications, faults>>

\* A server-side copy into the failed container finishes.
FailedCopyCompletes(d) ==
    /\ CanComplete(d)
    /\ failed' = Completed(failed, d)
    /\ UNCHANGED units
    /\ UNCHANGED <<locals, cosmos, incoming, processed, notifications,
                   faults>>

(* ------------- ClaudeDocumentProcessor.extract_data: the call --------- *)

\* extract_data is called with some content type, in mock mode or with
\* the live client, whose call will return some response text.
AdapterInit ==
    /\ PipelineInit
    /\ ScorerIdle
    /\ UploaderIdle
    /\ enable_mock_ai \in BOOLEAN
    /\ content_type \in ContentTypes
    /\ media_type = NoContentType
    /\ client_calls = 0
    /\ response_text \in ResponseTexts
    /\ adapter_result = NotCalled

\* Mock mode that goes on to the live client.
ExtractDataMock_CallsClient ==
    /\ adapter_result = NotCalled
    /\ enable_mock_ai
    /\ media_type' = GetClaudeMediaType(content_type)
    /\ client_calls' = client_calls + 1
    /\ adapter_result' = ParseResponse(response_text)
    /\ UNCHANGED <<pipeline, scorer, uploader, enable_mock_ai, content_type,
                   response_text>>

\* Lines 144-145: in mock mode extract_data returns _mock_extraction(...).
ExtractDataMock ==
    /\ adapter_result = NotCalled
    /\ enable_mock_ai
    /\ adapter_result' = MockExtraction
    /\ UNCHANGED <<pipeline, scorer, uploader, enable_mock_ai, content_type,
                   media_type, client_calls, response_text>>

\* Lines 147-237: with the live client extract_data maps the content type,
\* calls the model, parses the response and returns or raises.
ExtractDataParse ==
    /\ adapter_result = NotCalled
    /\ ~enable_mock_ai
    /\ media_type' = GetClaudeMediaType(content_type)
    /\ client_calls' = client_calls + 1
    /\ adapter_result' = ParseResponse(response_text)
    /\ UNCHANGED <<pipeline, scorer, uploader, enable_mock_ai, content_type,
                   response_text>>

(* --------- ClaudeDocumentProcessor._calculate_confidence: the call ----- *)

\* The extracted_data dicts of at most n fields and m warnings.
DictsUpTo(n, m) ==
    {Dict(values, warnings) :
        values \in UNION {[1..k -> FieldValues] : k \in 0..n},
        warnings \in 0..m}

\* The dicts _calculate_confidence is called with.
Dicts == DictsUpTo(MaxFields, MaxWarnings)

\* _calculate_confidence is called with some dict.
ScorerInit ==
    /\ PipelineInit
    /\ AdapterIdle
    /\ UploaderIdle
    /\ extracted_data \in Dicts
    /\ confidence = NotComputed

\* Lines 350-363: _calculate_confidence returns.
CalculateConfidenceCall ==
    /\ confidence = NotComputed
    /\ confidence' = Computed(CalculateConfidence(extracted_data))
    /\ UNCHANGED <<pipeline, adapter, uploader, extracted_data>>

(* ------------------ StorageService.upload_document --------------------- *)

\* The file names uploads arrive with.
FileNames == {"invoice.pdf", "scan.png"}

\* The values str(uuid.uuid4())[:8] can take: eight hexadecimal digits.
UniqueIds == {"3f2a9c1e", "b07d44e2"}

\* Clock ticks in one second: strftime("%Y%m%d%H%M%S") drops them.
TicksPerSecond == 2

\* Line 207: datetime.utcnow().strftime("%Y%m%d%H%M%S").
Timestamp(ticks) == ticks \div TicksPerSecond

\* Line 209: f"{timestamp}_{unique_id}_{file_name}".
BlobName(timestamp, unique_id, file_name) ==
    <<timestamp, unique_id, file_name>>

\* upload_blob(..., overwrite=True) of lines 220-224: the blob of that name
\* now holds this upload, whatever it held before.
UploadBlob(container, name, upload) ==
    {b \in container : b.name # name}
        \cup {[name |-> name, upload |-> upload]}

\* No upload has been made.
UploadInit ==
    /\ PipelineInit
    /\ AdapterIdle
    /\ ScorerIdle
    /\ UploaderIdle

\* Time passes.
Tick ==
    /\ utcnow < MaxTicks
    /\ utcnow' = utcnow + 1
    /\ UNCHANGED <<pipeline, adapter, scorer, uploaded, incoming_container,
                   upload_calls, http_request, http_response>>

\* The exceptions the blob service can raise from upload_blob.
StoreErrors == {"ServiceRequestError", "HttpResponseError"}

\* Lines 201-237: one call of StorageService.upload_document.  The random
\* part of the name is any value uuid4 can give; when the blob service
\* raises, the exception is logged and raised again (lines 235-237).
UploadDocument(file_name, raised) ==
    /\ Len(upload_calls) < MaxUploads
    /\ upload_calls' = Append(upload_calls, raised)
    /\ IF raised = NoError
       THEN \E unique_id \in UniqueIds :
               LET blob_name ==
                       BlobName(Timestamp(utcnow), unique_id, file_name)
               IN  /\ incoming_container' =
                          UploadBlob(incoming_container, blob_name,
                                     Len(uploaded) + 1)
                   /\ uploaded' = Append(uploaded, blob_name)
       ELSE UNCHANGED <<uploaded, incoming_container>>

(* -------------------- the upload endpoint (HTTP) ----------------------- *)

\* req.files.getlist('file') is empty.
NoFile == "no file"

\* Byte lengths of the files sent: small, exactly the limit, one more.
FileSizes ==
    {1, MaxDocumentSizeMb * BytesPerMb, MaxDocumentSizeMb * BytesPerMb + 1}

\* The requests the endpoint receives.
Requests ==
    {Request(NoFile, 0)}
        \cup {Request(file, size) : file \in FileNames, size \in FileSizes}

\* Lines 174-175 with the size test removed.
FileTooLarge_Never(n) == FALSE

\* Lines 174-175: size_mb > float(config.max_document_size_mb).
FileTooLarge(n) == n > MaxDocumentSizeMb * BytesPerMb

\* Lines 155-208: the upload endpoint handles one request.
UploadRequest ==
    \E request \in Requests :
        /\ http_request' = request
        /\ IF request.file = NoFile
           THEN /\ http_response' =
                       HttpResponse(400, "No file provided", Null)
                /\ UNCHANGED <<uploaded, incoming_container, upload_calls>>
           ELSE IF FileTooLarge(request.size)
           THEN /\ http_response' = HttpResponse(400, "File too large", Null)
                /\ UNCHANGED <<uploaded, incoming_container, upload_calls>>
           ELSE \E raised \in StoreErrors \cup {NoError} :
                   /\ UploadDocument(request.file, raised)
                   /\ http_response' =
                          IF raised = NoError
                          THEN HttpResponse(200, NoError,
                                            uploaded'[Len(uploaded')])
                          ELSE HttpResponse(500, raised, Null)
        /\ UNCHANGED <<pipeline, adapter, scorer, utcnow>>

(* --------------------------- specification ---------------------------- *)

Next ==
    \/ \E i \in Invocations :
        \/ ParseMessage(i)
        \/ CreateJob(i)
        \/ DownloadDocument(i)
        \/ CheckSize(i)
        \/ ExtractData(i)
        \/ CreateDocument(i)
        \/ CreateExtractedData(i)
        \/ ProcessedCopy(i)
        \/ ProcessedDelete(i)
        \/ UpdateJobCompleted(i)
        \/ SendCompletionNotification(i)
        \/ UpdateJobFailed(i)
        \/ FailedCopy(i)
        \/ FailedSetMetadata(i)
        \/ FailedDelete(i)
    \/ \E d \in processed : ProcessedCopyCompletes(d)
    \/ \E d \in failed : FailedCopyCompletes(d)

Spec == Init /\ [][Next]_vars

\* One call of extract_data on its own, for every response text.
AdapterNext == ExtractDataMock \/ ExtractDataParse

AdapterSpec == AdapterInit /\ [][AdapterNext]_vars

\* One call of _calculate_confidence on its own, for every dict.
ScorerNext == CalculateConfidenceCall

ScorerSpec == ScorerInit /\ [][ScorerNext]_vars

\* The upload endpoint on its own, as time passes.
UploadNext == Tick \/ UploadRequest

UploadSpec == UploadInit /\ [][UploadNext]_vars

(* ----------------------- vocabulary of the claims --------------------- *)

\* The invocation has returned or raised.
Ended(i) == pc[i] \in {"returned", "raised"}

\* The calls invocation i has made so far, each with its outcome.
Steps(i) == {trace[i][k] : k \in 1..Len(trace[i])}

Called(i, step) == \E ok \in BOOLEAN : <<step, ok>> \in Steps(i)

Succeeded(i, step) == <<step, TRUE>> \in Steps(i)

Raised(i, step) == <<step, FALSE>> \in Steps(i)

\* The statuses under which a container holds records of invocation i's job.
StatusesIn(container, i) ==
    {r.status : r \in {x \in container : x.id = JobId(i)}}

TerminalStatuses == {"completed", "failed"}

\* The Document records and the ExtractedData records of invocation i's job.
DocumentsOf(i) == {d \in documents : d.jobId = JobId(i)}

ExtractedOf(i) ==
    {x \in extracted : \E d \in DocumentsOf(i) : x.documentId = d.id}

\* The size limit in bytes, and the blobs within it.
LimitBytes == MaxDocumentSizeMb * BytesPerMb

\* The bytes of blob b are in the failed (processed) container.
InFailedArea(b) == \E d \in failed : d.source = b /\ d.copy = "success"

InProcessedArea(b) == \E d \in processed : d.source = b /\ d.copy = "success"

\* The calls of the try block that process_document requires to succeed.
RequiredCalls ==
    {"create_job", "download_document", "extract_data", "create_document",
     "create_extracted_data", "update_job_completed"}

(* ------------------------------- claims ------------------------------- *)

\* C1: an invocation for a document within the size limit, all of whose
\* required collaborator calls succeeded, returns without raising; a Job
\* record with status completed and a documentId is persisted, and exactly
\* one Document and one ExtractedData record of that invocation exist.
C1_UnderLimitCompletes ==
    \A i \in Invocations :
        (/\ Ended(i)
         /\ blob_url[i] \in Blobs
         /\ BlobBytes(blob_url[i]) <= LimitBytes
         /\ \A c \in RequiredCalls : ~Raised(i, c))
        => /\ pc[i] = "returned"
           /\ result[i] = NoError
           /\ \E r \in jobs : /\ r.id = JobId(i)
                              /\ r.status = "completed"
                              /\ r.documentId # Null
                              /\ r.documentId \in {d.id : d \in DocumentsOf(i)}
           /\ Cardinality(DocumentsOf(i)) = 1
           /\ Cardinality(ExtractedOf(i)) = 1

\* C1 witness: an invocation for the blob of exactly the limit has returned.
C1_Witness ==
    \E i \in Invocations :
        /\ pc[i] = "returned"
        /\ blob_url[i] = "at-limit.pdf"
        /\ "completed" \in StatusesIn(jobs, i)

\* C2: an invocation for a document over the size limit ends with its Job
\* recorded as failed, with no Document and no ExtractedData record, and
\* with the source blob in the failed container or still in incoming.
C2_OverLimitFails ==
    \A i \in Invocations :
        (/\ Ended(i)
         /\ blob_url[i] \in Blobs
         /\ BlobBytes(blob_url[i]) > LimitBytes)
        => /\ "failed" \in StatusesIn(jobs, i)
           /\ DocumentsOf(i) = {}
           /\ ExtractedOf(i) = {}
           /\ InFailedArea(blob_url[i]) \/ blob_url[i] \in incoming

\* C3: once a terminal status is recorded for a Job, the statuses recorded
\* for it never change again: no second terminal status (completed after
\* failed, failed after completed) and no return to processing; and a
\* status is only ever added, as completed or failed next to processing.
C3_TerminalStatusIsFinal ==
    [][\A i \in Invocations :
          /\ StatusesIn(jobs, i) \cap TerminalStatuses # {}
                => StatusesIn(jobs', i) = StatusesIn(jobs, i)
          /\ "processing" \in StatusesIn(jobs, i)
                => \/ StatusesIn(jobs', i) = StatusesIn(jobs, i)
                   \/ \E t \in TerminalStatuses :
                        StatusesIn(jobs', i) = StatusesIn(jobs, i) \cup {t}
      ]_vars

\* C3 witness: one Job recorded completed and another recorded failed, each
\* after its processing record, both invocations over.
C3_Witness ==
    \E i, j \in Invocations :
        /\ Ended(i) /\ Ended(j)
        /\ StatusesIn(jobs, i) = {"processing", "completed"}
        /\ StatusesIn(jobs, j) = {"processing", "failed"}

\* C4: an invocation that persisted its Job as processing ends with the Job
\* recorded in a terminal status, written exactly once, and not left in
\* processing.
C4_EndsTerminal ==
    \A i \in Invocations :
        (Ended(i) /\ Succeeded(i, "create_job"))
        => /\ StatusesIn(jobs, i) \cap TerminalStatuses # {}
           /\ Cardinality({s \in {"update_job_completed", "update_job_failed"} :
                              Succeeded(i, s)}) = 1

\* C5: when a required step of the try block fails, the invocation ends by
\* raising that failure, whatever the cleanup steps of the handler did.
C5_OriginalFailureReraised ==
    \A i \in Invocations :
        \A step \in (RequiredCalls \ {"create_job"}) \cup {"check_size"} :
            (Raised(i, step) /\ Ended(i))
            => pc[i] = "raised" /\ result[i] = step

\* C5 witness: the size check failed, the write marking the Job failed
\* raised too, and the invocation raised the size-check failure.
C5_Witness ==
    \E i \in Invocations :
        /\ pc[i] = "raised"
        /\ Raised(i, "check_size")
        /\ Raised(i, "update_job_failed")
        /\ inner_e[i] = "update_job_failed"

\* The calls of the handler and of move_to_failed.
HandlerSteps ==
    {"update_job_failed", "failed_copy", "failed_set_metadata",
     "failed_delete"}

\* The download, metadata-store and extraction calls made after create_job.
CallsAfterCreateJob == RequiredCalls \ {"create_job"}

\* C6: when a download, metadata-store or extraction call raises after the
\* Job was created, no later step of the success path runs, the update of
\* the Job to failed is attempted next, and a move of the source blob to the
\* failed container follows it.
C6_FailurePathTaken ==
    \A i \in Invocations :
        \A k \in 1..Len(trace[i]) :
            (/\ Ended(i)
             /\ trace[i][k][1] \in CallsAfterCreateJob
             /\ trace[i][k][2] = FALSE)
            => /\ \A l \in (k + 1)..Len(trace[i]) :
                     trace[i][l][1] \in HandlerSteps
               /\ k < Len(trace[i])
               /\ trace[i][k + 1][1] = "update_job_failed"
               /\ \E l \in (k + 2)..Len(trace[i]) :
                     trace[i][l][1] = "failed_copy"

\* C7: when create_job fails, no record of the Job is written by a later
\* call, the blob is not downloaded, and the source blob is not copied,
\* tagged or deleted.
C7_NoCompensationAtEntry ==
    \A i \in Invocations :
        Raised(i, "create_job")
        => /\ StatusesIn(jobs, i) = {}
           /\ ~Called(i, "update_job_failed")
           /\ ~Called(i, "download_document")
           /\ \A h \in HandlerSteps \ {"update_job_failed"} : ~Called(i, h)

\* C8: a terminal status is recorded for a Job only after create_job for it
\* succeeded; no Job first appears in the store in a terminal status.
C8_CreateBeforeTerminal ==
    \A i \in Invocations :
        StatusesIn(jobs, i) \cap TerminalStatuses # {}
        => /\ Succeeded(i, "create_job")
           /\ "processing" \in StatusesIn(jobs, i)

\* C9: move_to_processed runs only after create_document and
\* create_extracted_data have succeeded, and every blob of the processed
\* container has its Document and its ExtractedData record persisted.
C9_MoveAfterMetadata ==
    /\ \A i \in Invocations :
          (Called(i, "processed_copy")
              \/ pc[i] \in {"move_to_processed", "processed_delete"})
          => /\ Succeeded(i, "create_document")
             /\ Succeeded(i, "create_extracted_data")
             /\ \E d \in documents : d.id = DocumentId(i)
             /\ \E x \in extracted : x.documentId = DocumentId(i)
    /\ \A b \in processed :
          /\ \E d \in documents : d.id = b.name[1]
          /\ \E x \in extracted : x.documentId = b.name[1]

\* C9 witness: a move to processed has been carried out to the end.
C9_Witness ==
    \E i \in Invocations :
        /\ Succeeded(i, "processed_copy")
        /\ Succeeded(i, "processed_delete")
        /\ InProcessedArea(blob_url[i])

\* The order the claim gives the steps of the success path, the move being
\* the copy followed by the delete.
ClaimedOrder ==
    <<"create_job", "download_document", "check_size", "extract_data",
      "create_document", "create_extracted_data", "processed_copy",
      "processed_delete", "update_job_completed",
      "send_completion_notification">>

\* The steps whose failure is swallowed by the collaborator that makes them.
BestEffortSteps ==
    {"processed_copy", "processed_delete", "send_completion_notification"}

\* The success-path steps invocation i has run, in order.
TrySteps(i) ==
    SelectSeq(trace[i],
              LAMBDA x : \E k \in 1..Len(ClaimedOrder) : ClaimedOrder[k] = x[1])

\* Position of a step in the claimed order.
Rank(step) == CHOOSE k \in 1..Len(ClaimedOrder) : ClaimedOrder[k] = step

\* C10: the steps of the success path run in the claimed order, each after
\* the previous one has finished (successfully, unless the step is a
\* best-effort one whose failure is swallowed; a failed copy skips the
\* delete); extract_data is never called for a document that is over the
\* size limit or was not downloaded.
C10_StrictOrder ==
    \A i \in Invocations :
        LET steps == TrySteps(i) IN
        /\ Len(steps) > 0 => steps[1][1] = "create_job"
        /\ \A k \in 1..(Len(steps) - 1) :
              /\ steps[k][2] = TRUE \/ steps[k][1] \in BestEffortSteps
              /\ \/ Rank(steps[k + 1][1]) = Rank(steps[k][1]) + 1
                 \/ /\ steps[k] = <<"processed_copy", FALSE>>
                    /\ steps[k + 1][1] = "update_job_completed"
        /\ Called(i, "extract_data")
              => /\ Succeeded(i, "download_document")
                 /\ BlobBytes(blob_url[i]) <= LimitBytes

\* C10 witness: an invocation has run the whole success path, to the
\* notification, for the blob of exactly the limit.
C10_Witness ==
    \E i \in Invocations :
        /\ pc[i] = "returned"
        /\ Len(TrySteps(i)) = Len(ClaimedOrder)
        /\ blob_url[i] = "at-limit.pdf"

\* The two steps of move_to_processed.
ProcessedMoveSteps == {"processed_copy", "processed_delete"}

\* The job store holds the completed record of invocation i, carrying the
\* id of its Document.
RecordedCompleted(i) ==
    \E j \in jobs :
        /\ j.id = JobId(i)
        /\ j.status = "completed"
        /\ j.documentId = DocumentId(i)

\* C11: when the publish of the completion notification throws, the
\* invocation still ends without raising and with its Job recorded
\* completed; the failure does not change the Job's status and does not
\* start the failure path.
C11_NotificationIsolated ==
    \A i \in Invocations :
        Raised(i, "send_completion_notification")
        => /\ pc[i] = "returned"
           /\ result[i] = NoError
           /\ e[i] = NoError
           /\ RecordedCompleted(i)
           /\ "failed" \notin StatusesIn(jobs, i)
           /\ \A h \in HandlerSteps : ~Called(i, h)

\* C11 witness: an invocation whose notification publish threw.
C11_Witness ==
    \E i \in Invocations :
        /\ Raised(i, "send_completion_notification")
        /\ Succeeded(i, "update_job_completed")

\* C12: a failure of the copy or of the delete of move_to_processed is
\* swallowed: it is never the exception process_document handles, the next
\* call is the update of the Job to completed, and when that update
\* succeeds the Job is recorded completed with the documentId, the
\* notification is attempted and the invocation returns without raising.
C12_ProcessedMoveSwallowed ==
    \A i \in Invocations :
        /\ e[i] \notin ProcessedMoveSteps
        /\ \A k \in 1..Len(trace[i]) :
              (trace[i][k][1] \in ProcessedMoveSteps /\ trace[i][k][2] = FALSE)
              => /\ k < Len(trace[i])
                    => trace[i][k + 1][1] = "update_job_completed"
                 /\ k = Len(trace[i]) => pc[i] = "update_job_completed"
                 /\ (Ended(i) /\ Succeeded(i, "update_job_completed"))
                    => /\ pc[i] = "returned"
                       /\ result[i] = NoError
                       /\ RecordedCompleted(i)
                       /\ Called(i, "send_completion_notification")

\* C12 witness: the copy was started, the delete failed, and the invocation
\* returned.
C12_Witness ==
    \E i \in Invocations :
        /\ Succeeded(i, "processed_copy")
        /\ Raised(i, "processed_delete")
        /\ pc[i] = "returned"

\* C13: on the failure path both cleanup actions are attempted: an
\* invocation that raised with its job and blob_url bound has attempted
\* the write marking the Job failed and has attempted the move to the
\* failed container, whether or not the write succeeded.
C13_BothCleanupsAttempted ==
    \A i \in Invocations :
        (pc[i] = "raised" /\ blob_url[i] # Unbound)
        => /\ Called(i, "update_job_failed")
           /\ Called(i, "failed_copy")

\* Invocation i ended completed with its own Job, Document and
\* ExtractedData records.
CompletedTriple(i) ==
    /\ pc[i] = "returned"
    /\ RecordedCompleted(i)
    /\ DocumentsOf(i) = {DocumentRecord(i)}
    /\ ExtractedOf(i) = {ExtractedRecord(i)}

\* C14: two invocations for the same locator, with no collaborator call
\* failing from outside, both end completed, each with its own Job,
\* Document and ExtractedData records.
C14_TwoIndependentTriples ==
    \A i, j \in Invocations :
        (/\ i # j
         /\ faults = 0
         /\ blob_url[i] = "at-limit.pdf"
         /\ blob_url[j] = "at-limit.pdf"
         /\ Ended(i)
         /\ Ended(j))
        => /\ CompletedTriple(i)
           /\ CompletedTriple(j)
           /\ JobId(i) # JobId(j)
           /\ DocumentId(i) # DocumentId(j)
           /\ ExtractedId(i) # ExtractedId(j)

\* C15: the cleanup of a failed attempt preserves the source blob: after an
\* invocation that had downloaded the blob has raised, and no other
\* invocation has deleted it, the blob is still in the incoming container
\* for a redelivered invocation to download.
C15_RetryFindsBlob ==
    \A i \in Invocations :
        (/\ pc[i] = "raised"
         /\ Succeeded(i, "download_document")
         /\ \A j \in Invocations \ {i} :
               /\ ~Succeeded(j, "processed_delete")
               /\ ~Succeeded(j, "failed_delete"))
        => blob_url[i] \in incoming

\* Invocation i takes the step that appends <<step, ok>> to its trace.
Takes(i, step, ok) == trace'[i] = Append(trace[i], <<step, ok>>)

\* C16: both moves are copy-then-delete.  A delete of the source is issued
\* only by an invocation whose copy to the destination was started; a
\* delete that fails leaves the incoming container as it was and raises
\* nothing: after move_to_processed control goes on to the update of the
\* Job, after move_to_failed the invocation re-raises its original failure.
C16_CopyThenDelete ==
    [][\A i \in Invocations :
          /\ \A ok \in BOOLEAN :
                /\ Takes(i, "processed_delete", ok)
                      => Succeeded(i, "processed_copy")
                /\ Takes(i, "failed_delete", ok)
                      => Succeeded(i, "failed_copy")
          /\ Takes(i, "processed_delete", FALSE)
                => /\ incoming' = incoming
                   /\ e'[i] = NoError
                   /\ pc'[i] = "update_job_completed"
          /\ Takes(i, "failed_delete", FALSE)
                => /\ incoming' = incoming
                   /\ inner_e'[i] = NoError
                   /\ result'[i] = e[i]
      ]_vars

\* C16 witness: a copy to processed was started and finished, the delete of
\* the source then failed, and the source is still in incoming.
C16_Witness ==
    \E i \in Invocations :
        /\ Succeeded(i, "processed_copy")
        /\ Raised(i, "processed_delete")
        /\ blob_url[i] \in incoming
        /\ InProcessedArea(blob_url[i])

\* C17 as stated: whenever an invocation has attempted a blob move, to
\* processed or to failed, a terminal status of its Job is recorded.
C17_TerminalBeforeMove ==
    \A i \in Invocations :
        (Called(i, "processed_copy") \/ Called(i, "failed_copy"))
        => StatusesIn(jobs, i) \cap TerminalStatuses # {}

\* C17 amended: the move to failed is attempted only after the Job was
\* recorded failed; the move to processed is attempted while the Job is
\* still recorded processing only, and the write of completed is attempted
\* only after that move.
C17_OutcomeAndMoveOrder ==
    \A i \in Invocations :
        /\ Called(i, "failed_copy")
              => /\ Succeeded(i, "update_job_failed")
                 /\ "failed" \in StatusesIn(jobs, i)
        /\ (Called(i, "processed_copy") /\ ~Called(i, "update_job_completed"))
              => StatusesIn(jobs, i) = {"processing"}
        /\ Called(i, "update_job_completed") => Called(i, "processed_copy")

\* C17 witness: one invocation in the middle of its move to processed with
\* its Job still processing, another in its move to failed with its Job
\* recorded failed.
C17_Witness ==
    \E i, j \in Invocations :
        /\ pc[i] = "processed_delete"
        /\ StatusesIn(jobs, i) = {"processing"}
        /\ Succeeded(j, "failed_copy")
        /\ "failed" \in StatusesIn(jobs, j)

\* C18: when two invocations for the same blob have both downloaded it and
\* both reached the move to processed, whichever way their copies and
\* deletes interleave, no move failure becomes the failure of an
\* invocation, and each invocation whose update of the Job succeeds ends
\* completed without raising.
C18_RaceOnMoveTolerated ==
    \A i, j \in Invocations :
        (/\ i # j
         /\ blob_url[i] = blob_url[j]
         /\ Called(i, "processed_copy")
         /\ Called(j, "processed_copy"))
        => /\ e[i] \notin ProcessedMoveSteps
           /\ (Ended(i) /\ Succeeded(i, "update_job_completed"))
                 => pc[i] = "returned" /\ RecordedCompleted(i)
           /\ (Ended(i) /\ Ended(j) /\ faults = 0)
                 => CompletedTriple(i) /\ CompletedTriple(j)

\* C18 witness: both invocations started their copy of the same blob, the
\* first deleted the source, the second found nothing to delete, and both
\* ended completed.
C18_Witness ==
    \E i, j \in Invocations :
        /\ i # j
        /\ blob_url[i] = blob_url[j]
        /\ Succeeded(i, "processed_copy")
        /\ Succeeded(j, "processed_copy")
        /\ Succeeded(i, "processed_delete")
        /\ Raised(j, "processed_delete")
        /\ faults = 0
        /\ CompletedTriple(i)
        /\ CompletedTriple(j)

\* What invocation i holds in memory.
OwnLocals(i) ==
    <<pc[i], event_data[i], blob_url[i], job[i], document_bytes[i], e[i], inner_e[i],
      result[i], trace[i], dest_blob_name[i]>>

\* The records of the metadata store and the notifications that carry the
\* ids of invocation i.
OwnRecords(i) ==
    <<{r \in jobs : r.id = JobId(i)}, DocumentsOf(i), ExtractedOf(i),
      {n \in notifications : n.jobId = JobId(i)}>>

\* Where document b is: whether it is in incoming, and its copies.
Placement(b) ==
    <<b \in incoming, {d \in processed : d.source = b},
      {d \in failed : d.source = b}>>

\* The steps that fail for an invocation running alone with every
\* collaborator healthy: the parse of a malformed message, the size check
\* of an over-limit document, the extraction of a response that does not
\* parse, and the tagging of a copy still in progress.
FailsAlone(i, step) ==
    \/ step = "json_loads"
    \/ step = "check_size" /\ TooLarge(BlobBytes(blob_url[i]))
    \/ step = "extract_data" /\ ~TooLarge(BlobBytes(blob_url[i]))
    \/ step = "failed_set_metadata"

\* With every collaborator healthy, an invocation whose document no other
\* invocation references fails where it would fail alone, and ends as it
\* would end alone.
SameAsAlone ==
    \A i \in Invocations :
        (/\ faults = 0
         /\ \A j \in Invocations \ {i} : blob_url[j] # blob_url[i])
        => /\ \A k \in 1..Len(trace[i]) :
                 trace[i][k][2] = FALSE => FailsAlone(i, trace[i][k][1])
           /\ (Ended(i) /\ blob_url[i] = "at-limit.pdf")
                 => IF Raised(i, "extract_data")
                    THEN /\ pc[i] = "raised"
                         /\ result[i] = "extract_data"
                         /\ StatusesIn(jobs, i) = {"processing", "failed"}
                         /\ DocumentsOf(i) = {}
                    ELSE /\ CompletedTriple(i)
                         /\ blob_url[i] \notin incoming
           /\ (Ended(i) /\ blob_url[i] = "over-limit.pdf")
                 => /\ pc[i] = "raised"
                    /\ result[i] = "check_size"
                    /\ StatusesIn(jobs, i) = {"processing", "failed"}
                    /\ DocumentsOf(i) = {}
                    /\ ExtractedOf(i) = {}

\* A step of invocation i leaves alone the memory, the records and the
\* document of every invocation that references another document.
NoInterference ==
    \A i, j \in Invocations :
        (/\ i # j
         /\ OwnLocals(i)' # OwnLocals(i)
         /\ blob_url'[i] # blob_url[j])
        => /\ OwnLocals(j)' = OwnLocals(j)
           /\ OwnRecords(j)' = OwnRecords(j)
           /\ Placement(blob_url[j])' = Placement(blob_url[j])

\* C19: concurrent invocations that reference different documents never
\* conflict: under every interleaving each one's outcome, records and blob
\* placement are those of a run alone, and no step of one reads or writes
\* what the other holds in memory.
C19_DifferentDocumentsNoConflict == []SameAsAlone /\ [][NoInterference]_vars

\* C19 witness: two invocations for different documents have both ended
\* with every collaborator healthy, one completed and one failed on size.
C19_Witness ==
    \E i, j \in Invocations :
        /\ faults = 0
        /\ blob_url[i] = "at-limit.pdf"
        /\ blob_url[j] = "over-limit.pdf"
        /\ pc[i] = "returned"
        /\ pc[j] = "raised"
        /\ Succeeded(j, "failed_delete")

\* C20: for every response text of the model call extract_data returns a
\* structured result and raises nothing: the parsed JSON, else the parsed
\* contents of the ```json block, else (fence unterminated, contents of the
\* block no JSON, JSON that is no object, no fence at all) the raw text
\* wrapped in a single field.
C20_AlwaysStructured ==
    (~enable_mock_ai /\ adapter_result # NotCalled)
    => /\ adapter_result.raised = NoError
       /\ adapter_result.extractedFields \in
             {Parsed, Warned, RawText(response_text)}

\* C21: when the response of the model call is no JSON and has no ```json
\* block, the invocation completes (its Job is recorded completed) and the
\* ExtractedData record it stored is the raw-text placeholder with a
\* confidence strictly below that of a clean extraction.
C21_RawTextLowersConfidence ==
    \A i \in Invocations :
        (/\ pc[i] = "returned"
         /\ extraction_result[i].extractedFields.kind = "raw_text")
        => /\ RecordedCompleted(i)
           /\ \A x \in ExtractedOf(i) :
                 /\ x.extractedFields =
                       RawText(extraction_result[i].rawResponse)
                 /\ x.confidence < FullConfidence

(* C22, C23: the confidence score *)

\* The dicts with one more warning or one more field than d.
Grown(d) ==
    {Dict(d.values, d.warnings + 1)}
        \cup {Dict(Append(d.values, v), d.warnings) : v \in FieldValues}

\* 1.0 less 0.1 per warning, not below 0.0, in hundredths.
WarningsOnly(w) == IF w * 10 >= 100 THEN 0 ELSE 100 - w * 10

\* C22: _calculate_confidence returns a value between 0.0 and 1.0; with no
\* null marker it is 1.0 less 0.1 per warning, clamped (1.0 for none, 0.7
\* for three, 0.0 for twelve); and a dict with at least as many warnings
\* and null markers never scores higher.
C22_ConfidenceRangeAndWarnings ==
    confidence.computed =>
        /\ confidence.value \in 0..100
        /\ NullCount(extracted_data) = 0
              => /\ confidence.value = WarningsOnly(extracted_data.warnings)
                 /\ extracted_data.warnings = 0 => confidence.value = 100
                 /\ extracted_data.warnings = 3 => confidence.value = 70
                 /\ extracted_data.warnings = 12 => confidence.value = 0
        /\ \A d \in Grown(extracted_data) :
              (/\ d.warnings >= extracted_data.warnings
               /\ NullCount(d) >= NullCount(extracted_data))
              => CalculateConfidence(d) <= confidence.value

\* Twelve warnings were scored 0.0.
C22_Witness ==
    /\ confidence.computed
    /\ extracted_data.warnings = 12
    /\ NullCount(extracted_data) = 0
    /\ confidence.value = 0

\* The fields of a dict whose value is the JSON null.
RECURSIVE JsonNulls(_)
JsonNulls(values) ==
    IF values = <<>> THEN 0
    ELSE (IF Head(values) = "json_null" THEN 1 ELSE 0)
            + JsonNulls(Tail(values))

\* C23: a dict with k fields whose value is the JSON null scores 0.05 * k
\* less, before clamping, and fields with other values cost nothing.
C23_JsonNullsLowerConfidence ==
    confidence.computed =>
        confidence.value =
            Clamp(100 - extracted_data.warnings * 10
                      - JsonNulls(extracted_data.values) * 5)

(* C24: mock mode *)

\* C24: with the mock flag set, extract_data returns the same sample for
\* every input (confidence 1.0, model mock-ai, no warnings) and never
\* calls the live client.
C24_MockIsFixedAndOffline ==
    (enable_mock_ai /\ adapter_result # NotCalled) =>
        /\ adapter_result = MockExtraction
        /\ adapter_result.raised = NoError
        /\ adapter_result.confidence = 100
        /\ adapter_result.model = "mock-ai"
        /\ adapter_result.warnings = 0
        /\ client_calls = 0

\* Mock mode answered a call whose live response would have been prose.
C24_Witness ==
    /\ enable_mock_ai
    /\ response_text = <<"prose">>
    /\ content_type = <<"image/png", "upper">>
    /\ adapter_result = MockExtraction
    /\ client_calls = 0

(* C29: the media type sent to the model *)

\* The media types the model accepts.
ClaudeMediaTypes ==
    {"application/pdf", "image/png", "image/jpeg", "image/gif", "image/webp"}

\* C29: _get_claude_media_type maps application/pdf, image/png, image/jpeg,
\* image/gif and image/webp to themselves and image/jpg to image/jpeg,
\* whatever the case of the letters, and everything else to
\* application/pdf.
C29_MediaTypeMapping ==
    (~enable_mock_ai /\ adapter_result # NotCalled) =>
        media_type =
            <<IF content_type[1] \in ClaudeMediaTypes THEN content_type[1]
              ELSE IF content_type[1] = "image/jpg" THEN "image/jpeg"
              ELSE "application/pdf",
              "lower">>

\* IMAGE/JPG written in mixed case was sent as image/jpeg.
C29_Witness ==
    /\ ~enable_mock_ai
    /\ adapter_result # NotCalled
    /\ content_type = <<"image/jpg", "mixed">>
    /\ media_type = <<"image/jpeg", "lower">>

(* C25, C26, C27: what the records say once an invocation has ended *)

\* C25: a persisted Job carries documentId only when its status is
\* completed and error only when its status is failed; no failed Job
\* carries a documentId.
C25_JobFieldsMatchStatus ==
    \A j \in jobs :
        /\ j.documentId # Null => j.status = "completed"
        /\ j.error # NoError => j.status = "failed"

\* C26: a Document is persisted on the success path only: the Job of every
\* Document ends completed, and no Job recorded failed has a Document.
C26_DocumentOnlyOnSuccess ==
    \A i \in Invocations :
        (Ended(i) /\ DocumentsOf(i) # {})
        => /\ "completed" \in StatusesIn(jobs, i)
           /\ "failed" \notin StatusesIn(jobs, i)

\* No invocation is between its first and its last step.
NoneInProgress == \A i \in Invocations : pc[i] = "idle" \/ Ended(i)

\* C27: once no invocation is in progress, every Document has exactly one
\* ExtractedData record.
C27_OneExtractedPerDocument ==
    NoneInProgress
    => \A d \in documents :
          Cardinality({x \in extracted : x.documentId = d.id}) = 1

(* C28: blob keys of uploads *)

\* C28: the blob keys generated by upload_document never collide: any two
\* uploads (the same file name within the same second included) get
\* different keys, so every upload's blob still holds that upload.
C28_UploadKeysNeverCollide ==
    /\ \A k, l \in 1..Len(uploaded) : k # l => uploaded[k] # uploaded[l]
    /\ \A k \in 1..Len(uploaded) :
          [name |-> uploaded[k], upload |-> k] \in incoming_container

(* C30: the boundary of the size check *)

\* C30: the size check rejects a document exactly when its length in bytes
\* over 1,048,576 exceeds the configured 50 MB: 52,428,800 bytes are
\* accepted and go on to extraction, 52,428,801 bytes are rejected.
C30_SizeBoundary ==
    \A i \in Invocations :
        Called(i, "check_size") =>
            /\ Raised(i, "check_size") <=> document_bytes[i] > 50 * 1048576
            /\ document_bytes[i] = 52428800
                  => /\ Succeeded(i, "check_size")
                     /\ pc[i] = "extract_data" \/ Called(i, "extract_data")
            /\ document_bytes[i] = 52428801
                  => /\ Raised(i, "check_size")
                     /\ ~Called(i, "extract_data")

\* One invocation passed the check with exactly 50 MB and reached the
\* extraction; another was rejected with one byte more.
C30_Witness ==
    \E i, j \in Invocations :
        /\ document_bytes[i] = 52428800
        /\ Succeeded(i, "check_size")
        /\ Called(i, "extract_data")
        /\ document_bytes[j] = 52428801
        /\ Raised(j, "check_size")

(* C31, C32: the contents of the Document and ExtractedData records *)

\* f is what follows the last "/" of url (all of url when it has none).
FinalSegment(f, url) ==
    /\ Len(f) <= Len(url)
    /\ f = SubSeq(url, Len(url) - Len(f) + 1, Len(url))
    /\ \A k \in 1..Len(f) : f[k] # "/"
    /\ Len(f) < Len(url) => url[Len(url) - Len(f)] = "/"

\* C31: the Document record an invocation persisted has as fileName the
\* final /-separated segment of the blob locator, as userId the userId of
\* the triggering event or anonymous when the event has none, as jobId the
\* id of the invocation's job, and as sizeBytes the downloaded byte length.
C31_DocumentFields ==
    \A i \in Invocations : \A d \in documents :
        d.id = DocumentId(i) =>
            /\ FinalSegment(d.fileName, UrlText(blob_url[i]))
            /\ event_data[i].userId = Absent => d.userId = "anonymous"
            /\ event_data[i].userId # Absent
                  => d.userId = event_data[i].userId
            /\ d.jobId = JobId(i)
            /\ d.sizeBytes = BlobBytes(blob_url[i])

\* An invocation for an event without userId persisted its Document, and
\* another one for an event of user-1.
C31_Witness ==
    \E i, j \in Invocations : \E d, f \in documents :
        /\ d.id = DocumentId(i)
        /\ d.userId = "anonymous"
        /\ d.fileName = <<"at-limit.pdf">>
        /\ f.id = DocumentId(j)
        /\ f.userId = "user-1"

\* C32: the ExtractedData record an invocation persisted stores the
\* confidence, model, warnings, rawResponse and extractedFields that the
\* extraction adapter returned to that invocation, and its documentId is
\* the id of the Document the same invocation persisted.
C32_ExtractedAsReturned ==
    \A i \in Invocations : \A x \in extracted :
        x.id = ExtractedId(i) =>
            /\ extraction_result[i] \in
                  {ParseResponse(text) : text \in PipelineResponses}
            /\ x.confidence = extraction_result[i].confidence
            /\ x.model = extraction_result[i].model
            /\ x.warnings = extraction_result[i].warnings
            /\ x.rawResponse = extraction_result[i].rawResponse
            /\ x.extractedFields = extraction_result[i].extractedFields
            /\ \E d \in documents :
                  /\ d.id = x.documentId
                  /\ d.jobId = JobId(i)

\* The record of an extraction that came back with one warning and a
\* confidence of 0.85 was persisted.
C32_Witness ==
    \E i \in Invocations : \E x \in extracted :
        /\ x.id = ExtractedId(i)
        /\ extraction_result[i] = ParseResponse(<<"obj_warned">>)
        /\ x.confidence = 85
        /\ x.warnings = 1
        /\ x.extractedFields = Warned

(* C33: one record per job *)

\* C33: the jobs store holds at most one record for each job id at any
\* time: update_job replaces the record that create_job wrote.
C33_OneRecordPerJob ==
    \A i \in Invocations :
        Cardinality({r \in jobs : r.id = JobId(i)}) <= 1

(* C34, C35: where the blob is *)

\* C34: at every point of every move the bytes of the document exist in at
\* least one storage area: the source is deleted only once the copy to the
\* destination has completed.
C34_BytesNeverLost ==
    \A b \in Blobs :
        b \in incoming \/ InProcessedArea(b) \/ InFailedArea(b)

\* The invocations for blob b.
InvocationsFor(b) == {i \in Invocations : blob_url[i] = b}

\* C35: once the invocations for a blob have finished, a copy of the blob
\* is in the processed area only if the Job of one of them ended completed
\* and in the failed area only if the Job of one of them ended failed, and
\* no invocation has put the blob in processed while its Job is failed.
C35_AreaAgreesWithOutcome ==
    \A b \in Blobs :
        (\A i \in InvocationsFor(b) : Ended(i)) =>
            /\ InProcessedArea(b)
                  => \E i \in InvocationsFor(b) :
                        "completed" \in StatusesIn(jobs, i)
            /\ InFailedArea(b)
                  => \E i \in InvocationsFor(b) :
                        "failed" \in StatusesIn(jobs, i)
            /\ \A i \in InvocationsFor(b) :
                  ~ /\ Succeeded(i, "processed_copy")
                    /\ InProcessedArea(b)
                    /\ "failed" \in StatusesIn(jobs, i)

(* C36: references between the records *)

\* C36: in every state every ExtractedData record's documentId is the id
\* of a persisted Document, every Document's jobId is the id of a persisted
\* Job, and every completed Job's documentId is the id of a persisted
\* Document that has an ExtractedData record.
C36_ReferencesResolve ==
    /\ \A x \in extracted : \E d \in documents : d.id = x.documentId
    /\ \A d \in documents : \E j \in jobs : j.id = d.jobId
    /\ \A j \in jobs :
          j.status = "completed"
          => \E d \in documents :
                /\ d.id = j.documentId
                /\ \E x \in extracted : x.documentId = d.id

\* A Job is recorded completed, with its Document and ExtractedData.
C36_Witness ==
    \E j \in jobs : \E d \in documents : \E x \in extracted :
        /\ j.status = "completed"
        /\ j.documentId = d.id
        /\ d.jobId = j.id
        /\ x.documentId = d.id

(* C37: the completion notification *)

\* How many times invocation i has called step.
TimesCalled(i, step) ==
    Cardinality({k \in 1..Len(trace[i]) : trace[i][k][1] = step})

\* The notifications published for the job of invocation i.
NotificationsOf(i) == {n \in notifications : n.jobId = JobId(i)}

\* C37: an invocation publishes the completion notification at most once,
\* only after its write marking the Job completed has succeeded, and never
\* when it takes the failure path; the notification carries the ids of the
\* Document and the Job that the invocation persisted.
C37_NotificationOnceAfterCompleted ==
    \A i \in Invocations :
        /\ TimesCalled(i, "send_completion_notification") <= 1
        /\ (Called(i, "send_completion_notification")
               \/ pc[i] = "send_completion_notification")
           => /\ Succeeded(i, "update_job_completed")
              /\ RecordedCompleted(i)
        /\ (e[i] # NoError \/ pc[i] \in {"handler", "raised"})
           => /\ NotificationsOf(i) = {}
              /\ ~Called(i, "send_completion_notification")
        /\ \A n \in NotificationsOf(i) :
              /\ Succeeded(i, "send_completion_notification")
              /\ n.documentId = DocumentId(i)
              /\ \E d \in documents : d.id = n.documentId /\ d.jobId = n.jobId
              /\ \E j \in jobs : j.id = n.jobId /\ j.documentId = n.documentId

\* An invocation has published its notification and returned.
C37_Witness ==
    \E i \in Invocations :
        /\ pc[i] = "returned"
        /\ NotificationsOf(i) = {CompletionMessage(i)}

(* C38: a message that cannot be parsed *)

\* C38: when the triggering message cannot be parsed, process_document
\* writes no job record, calls no collaborator and moves no blob, and raises
\* the parse error: the error the handler's own reference to the missing
\* job raises is swallowed and does not replace it.
C38_ParseFailure ==
    \A i \in Invocations :
        Raised(i, "json_loads") =>
            /\ trace[i] = <<<<"json_loads", FALSE>>>>
            /\ job[i] = UnboundJob
            /\ \A r \in jobs : r.id # JobId(i)
            /\ \A d \in processed \cup failed : d.name[1] # DocumentId(i)
            /\ dest_blob_name[i] = Null
            /\ e[i] = "json_loads"
            /\ Ended(i)
                  => /\ pc[i] = "raised"
                     /\ result[i] = "json_loads"
                     /\ inner_e[i] = "UnboundLocalError"

\* An invocation for a message that is no JSON has ended.
C38_Witness ==
    \E i \in Invocations :
        /\ Raised(i, "json_loads")
        /\ pc[i] = "raised"
        /\ inner_e[i] = "UnboundLocalError"

(* C39: the upload endpoint *)

\* The response answers the request as the endpoint's validation says.
ValidationAnswered ==
    /\ http_request.file = NoFile
          => http_response = HttpResponse(400, "No file provided", Null)
    /\ (http_request.file \in FileNames
           /\ http_request.size > 50 * 1048576)
          => http_response.status_code = 400
    /\ http_response.status_code = 200
          => /\ http_request.file \in FileNames
             /\ http_request.size <= 50 * 1048576
             /\ \E b \in incoming_container : b.name = http_response.blobUrl

\* A step that answers 400 calls no upload and writes no blob; a step in
\* which the call of the object store raises answers 500 with the message
\* of what was raised, and writes no blob.
StoreCallAnswered ==
    /\ http_response'.status_code = 400
          => UNCHANGED <<upload_calls, uploaded, incoming_container>>
    /\ (upload_calls' # upload_calls
           /\ upload_calls'[Len(upload_calls')] # NoError)
          => /\ http_response'.status_code = 500
             /\ http_response'.error = upload_calls'[Len(upload_calls')]
             /\ UNCHANGED <<uploaded, incoming_container>>

\* C39: the upload endpoint writes no blob when validation fails: a request
\* without file, or with a file over the configured maximum, is answered
\* 400 without a call of the object store; a failure of the object store is
\* answered 500 with the error message.
C39_UploadValidation == []ValidationAnswered /\ [][StoreCallAnswered]_vars

\* After an upload that the object store failed, a request without file
\* was answered 400, and the container is still empty.
C39_Witness ==
    /\ http_request.file = NoFile
    /\ http_response.status_code = 400
    /\ Len(upload_calls) = 1
    /\ upload_calls[1] = "ServiceRequestError"
    /\ incoming_container = {}

====
